---- MODULE Spec2Model ----
(***************************************************************************)
(* dynamic_array.h v3.1: DynamicArray(T) and its StringBuilder             *)
(* specialisation (T = char), modelled as a state machine over one array   *)
(* header (items, count, capacity) and the heap blocks of the allocator.   *)
(*                                                                         *)
(* Specifications:                                                         *)
(*   Spec    - a caller that constructs an array and then applies any      *)
(*             sequence of da_* and sb_* calls                             *)
(*   SpecRun - the "running total" example program of the header: push     *)
(*             every argument, then da_pop_or(&da, -1) ten times.          *)
(*   SpecBulk - a caller that builds an array or a string with two         *)
(*             appending calls, takes a copy of it, releases the copy and  *)
(*             frees the array.                                            *)
(*   SpecFail - a caller whose allocator can run out of memory.            *)
(*   SpecWide - a caller of da_append_many and da_pop_or on arrays whose   *)
(*             capacity is near the largest values of da_size.             *)
(***************************************************************************)
EXTENDS Integers, Sequences, FiniteSets, TLC

(***************************************************************************)
(* Bounds of the model.                                                    *)
(***************************************************************************)
MaxInitCap == 3    \* largest capacity handed to da_with_capacity in Spec
MaxCount   == 4    \* Spec stops appending once count would exceed this
MaxMany    == 2    \* longest source buffer handed to da_append_many
MaxArgs    == 3    \* SpecRun: all argument lists over Values up to this length

Values == {0, 1}   \* element values a caller of Spec appends ('\0' and a letter)
Defaults == {-1}   \* values of the default expression given to da_pop_or

(***************************************************************************)
(* Configuration of the header.                                            *)
(***************************************************************************)
DA_INIT_CAPACITY == 16

\* da_size is size_t: an unsigned type of at least 16 bits.  The model takes
\* the least width C allows, so every da_size computation is reduced modulo
\* 2^16 exactly where the C expression has type da_size.
DA_SIZE_BITS == 16
DA_SIZE_MOD  == 2 ^ DA_SIZE_BITS
da_size(x)   == x % DA_SIZE_MOD

\* sizeof(*(da)->items) for the element type of the modelled array (char).
sizeof_T == 1

NULL == 0

\* Content of a byte the program has not stored yet (malloc / realloc growth).
Indeterminate == -128

VARIABLES
  items,      \* (da)->items: NULL or the address of a heap block
  count,      \* (da)->count
  capacity,   \* (da)->capacity
  heap,       \* live blocks of the allocator: address -> sequence of elements
  made,       \* how the array was constructed: [ctor, capacity]
  last,       \* the operation performed last: arguments, result, entry state,
              \* allocator calls it made
  prev,       \* after a da_pop / da_pop_or: the name of the call before it
  dup,        \* the block da_memdup / sb_strdup returned, while the caller
              \* still holds it (NULL otherwise)
  may_fail,   \* whether malloc / realloc can run out of memory in this run
  pc,         \* "ops" in Spec; position of the example program in SpecRun
  argv,       \* SpecRun: the values the program pushes
  i,          \* SpecRun: the loop counter of the program
  out         \* SpecRun: the values printed by the pop loop

vars == <<items, count, capacity, heap, made, last, prev, dup, may_fail, pc,
          argv, i, out>>

(***************************************************************************)
(* Allocator: the default binding to malloc / realloc / free.              *)
(* Each operator yields the set of results the C library may produce.      *)
(***************************************************************************)
FreshPtr(h) ==
  CHOOSE p \in 1..(Cardinality(DOMAIN h) + 1) :
    /\ p \notin DOMAIN h
    /\ \A q \in 1..(p - 1) : q \in DOMAIN h

Block(sz) == [k \in 1..(sz \div sizeof_T) |-> Indeterminate]

\* malloc(sz); malloc(0) returns either a null pointer or a unique pointer.
\* Out of memory, malloc returns a null pointer.
DA_MALLOC(h, sz) ==
  LET p == FreshPtr(h)
  IN  {[heap |-> [a \in DOMAIN h \cup {p} |-> IF a = p THEN Block(sz) ELSE h[a]],
        ptr  |-> p]}
      \cup (IF sz = 0 \/ may_fail THEN {[heap |-> h, ptr |-> NULL]} ELSE {})

\* realloc(oldptr, newsz): oldsz is ignored by the default binding.  The new
\* block keeps the first min(old, new) elements; the old block is released.
\* Out of memory, realloc returns a null pointer and leaves the old block.
DA_REALLOC(h, oldptr, oldsz, newsz) ==
  LET old  == IF oldptr = NULL THEN <<>> ELSE h[oldptr]
      n    == newsz \div sizeof_T
      kept == IF Len(old) <= n THEN Len(old) ELSE n
      blk  == SubSeq(old, 1, kept) \o Block(newsz - kept * sizeof_T)
      p    == FreshPtr(h)
      keep == DOMAIN h \ {oldptr}
  IN  {[heap |-> (p :> blk) @@ [a \in keep |-> h[a]], ptr |-> p]}
      \cup (IF newsz = 0
              THEN {[heap |-> [a \in keep |-> h[a]], ptr |-> NULL]}
              ELSE {})
      \cup (IF may_fail THEN {[heap |-> h, ptr |-> NULL]} ELSE {})

(***************************************************************************)
(* Constructors.  A header is a record [items, count, capacity].           *)
(***************************************************************************)
da_from_parts(p, n, cap) == [items |-> p, count |-> n, capacity |-> cap]

DA_INIT == da_from_parts(NULL, 0, 0)

\* The set of [da, heap] results of da_with_capacity(T, ctx, cap).
da_with_capacity(h, cap) ==
  {[da   |-> da_from_parts(r.ptr, 0, cap),
    heap |-> r.heap,
    calls |-> <<[fn |-> "malloc", ptr |-> NULL, oldsz |-> 0,
                 newsz |-> da_size(cap * sizeof_T)]>>]
     : r \in DA_MALLOC(h, da_size(cap * sizeof_T))}

\* The live elements [0, count) of the array.
Live(h, p, n) == IF p = NULL \/ n = 0 THEN <<>> ELSE SubSeq(h[p], 1, n)

(***************************************************************************)
(* Operations.  Each yields the set of results the call may have: a record *)
(* with the header fields and heap after the call, the value the           *)
(* expression yields (ret, empty for a statement), the allocator calls     *)
(* made, whether the default expression was evaluated, and whether an      *)
(* element access fell outside the block items points to (oob).            *)
(***************************************************************************)

\* Variant of da__store: the index is taken after the increment,
\* items[++count] = v.
da__store_preinc(h, p, idx, v) ==
  IF p # NULL /\ p \in DOMAIN h /\ idx + 1 < Len(h[p])
    THEN [heap |-> [h EXCEPT ![p][idx + 2] = v], oob |-> FALSE]
    ELSE [heap |-> h, oob |-> TRUE]

\* (da)->items[idx] = v
da__store(h, p, idx, v) ==
  IF p # NULL /\ p \in DOMAIN h /\ idx < Len(h[p])
    THEN [heap |-> [h EXCEPT ![p][idx + 1] = v], oob |-> FALSE]
    ELSE [heap |-> h, oob |-> TRUE]

\* Variant of da__grow: the factor 2 is missing.
da__grow_same(cap) == IF cap > 0 THEN da_size(cap) ELSE DA_INIT_CAPACITY

\* Variant of da__grow: the doubling wraps around in a da_size of two bits, as
\* DA_SIZE_T could name a type too narrow for the capacities in use.
da__grow_wrap(cap) == IF cap > 0 THEN (cap * 2) % 4 ELSE DA_INIT_CAPACITY

\* Variant of da__grow: growth by a fixed chunk instead of doubling.
da__grow_chunk(cap) ==
  IF cap > 0 THEN da_size(cap + DA_INIT_CAPACITY) ELSE DA_INIT_CAPACITY

\* capacity > 0 ? capacity * 2 : DA_INIT_CAPACITY
da__grow(cap) == IF cap > 0 THEN da_size(cap * 2) ELSE DA_INIT_CAPACITY

\* Variant of da__realloc: the pointer DA_REALLOC returns is not assigned to
\* items.
da__realloc_lost(h, d, newcap) ==
  LET oldsz == da_size(sizeof_T * d.capacity)
      newsz == da_size(sizeof_T * newcap)
  IN  {[heap |-> r.heap, items |-> d.items, capacity |-> newcap,
        calls |-> <<[fn |-> "realloc", ptr |-> d.items,
                     oldsz |-> oldsz, newsz |-> newsz]>>]
         : r \in DA_REALLOC(h, d.items, oldsz, newsz)}

\* The reallocation both growing operations perform: items and capacity
\* after it, and the DA_REALLOC call made.
da__realloc(h, d, newcap) ==
  LET oldsz == da_size(sizeof_T * d.capacity)
      newsz == da_size(sizeof_T * newcap)
  IN  {[heap |-> r.heap, items |-> r.ptr, capacity |-> newcap,
        calls |-> <<[fn |-> "realloc", ptr |-> d.items,
                     oldsz |-> oldsz, newsz |-> newsz]>>]
         : r \in DA_REALLOC(h, d.items, oldsz, newsz)}

da__keep(h, d) ==
  {[heap |-> h, items |-> d.items, capacity |-> d.capacity, calls |-> <<>>]}

\* Variant of da_append: the element is stored before the capacity check, so
\* a full array is written one past its block and reallocated afterwards.
da_append_store_first(h, d, item) ==
  LET s     == da__store(h, d.items, d.count, item)
      sized == IF d.count = d.capacity
                 THEN da__realloc(s.heap, d, da__grow(d.capacity))
                 ELSE da__keep(s.heap, d)
  IN  {[items |-> g.items, count |-> da_size(d.count + 1),
        capacity |-> g.capacity, heap |-> g.heap, ret |-> <<item>>,
        calls |-> g.calls, evaluated |-> FALSE, oob |-> s.oob]
         : g \in sized}

\* (count == capacity ? (items = DA_REALLOC(...), capacity = ...) : 0),
\* items[count++] = (item)
da_append(h, d, item) ==
  LET sized == IF d.count = d.capacity
                 THEN da__realloc(h, d, da__grow(d.capacity))
                 ELSE da__keep(h, d)
  IN  {LET s == da__store(g.heap, g.items, d.count, item)
       IN  [items |-> g.items, count |-> da_size(d.count + 1),
            capacity |-> g.capacity, heap |-> s.heap, ret |-> <<item>>,
            calls |-> g.calls, evaluated |-> FALSE, oob |-> s.oob]
         : g \in sized}

\* while (da_size__v < count + da__count) da_size__v *= 2;
\* Once da_size__v is 0 the loop never exits: NoExit stands for that.
NoExit == -1

\* Variant of da__fit: the loop test is <= instead of <.
RECURSIVE da__fit_le(_, _)
da__fit_le(v, need) ==
  IF v <= need
    THEN IF v = 0 THEN NoExit ELSE da__fit_le(da_size(v * 2), need)
    ELSE v

RECURSIVE da__fit(_, _)
da__fit(v, need) ==
  IF v < need
    THEN IF v = 0 THEN NoExit ELSE da__fit(da_size(v * 2), need)
    ELSE v

\* for (da__i = 0; da__i < da__count; da__i++) items[count++] = src[da__i];
\* The iterations da__i .. n-1 of the loop, starting with count = cnt.  A run
\* of several iterations is the first half of them followed by the rest.
RECURSIVE da__copy(_, _, _, _, _, _)
da__copy(h, p, cnt, src, da__i, n) ==
  IF da__i >= n
    THEN [heap |-> h, count |-> cnt, oob |-> FALSE]
    ELSE IF da__i + 1 = n
      THEN LET s == da__store(h, p, cnt, src[da__i + 1])
           IN  [heap |-> s.heap, count |-> da_size(cnt + 1), oob |-> s.oob]
      ELSE LET mid == (da__i + n) \div 2
               a   == da__copy(h, p, cnt, src, da__i, mid)
               b   == da__copy(a.heap, p, a.count, src, mid, n)
           IN  [oob |-> a.oob \/ b.oob, heap |-> b.heap, count |-> b.count]

\* Variant of da_append_many: the block is reallocated to exactly count + n
\* elements instead of a doubled capacity.
da_append_many_exact(h, d, src, n) ==
  LET need  == da_size(d.count + n)
      sized == IF need > d.capacity
                 THEN da__realloc(h, d, need)
                 ELSE da__keep(h, d)
  IN  {LET c == da__copy(g.heap, g.items, d.count, src, 0, n)
       IN  [items |-> g.items, count |-> c.count, capacity |-> g.capacity,
            heap |-> c.heap, ret |-> <<>>, calls |-> g.calls,
            evaluated |-> FALSE, oob |-> c.oob]
         : g \in sized}

\* Variant of da_append_many: the test is >= instead of >, so a call whose
\* elements exactly fit reallocates all the same.
da_append_many_ge(h, d, src, n) ==
  LET need  == da_size(d.count + n)
      v     == da__fit(da__grow(d.capacity), need)
      sized == IF need >= d.capacity
                 THEN IF v = NoExit THEN {} ELSE da__realloc(h, d, v)
                 ELSE da__keep(h, d)
  IN  {LET c == da__copy(g.heap, g.items, d.count, src, 0, n)
       IN  [items |-> g.items, count |-> c.count, capacity |-> g.capacity,
            heap |-> c.heap, ret |-> <<>>, calls |-> g.calls,
            evaluated |-> FALSE, oob |-> c.oob]
         : g \in sized}

\* A call whose loop never exits has no result.
da_append_many(h, d, src, n) ==
  LET need  == da_size(d.count + n)
      v     == da__fit(da__grow(d.capacity), need)
      sized == IF need > d.capacity
                 THEN IF v = NoExit THEN {} ELSE da__realloc(h, d, v)
                 ELSE da__keep(h, d)
  IN  {LET c == da__copy(g.heap, g.items, d.count, src, 0, n)
       IN  [items |-> g.items, count |-> c.count, capacity |-> g.capacity,
            heap |-> c.heap, ret |-> <<>>, calls |-> g.calls,
            evaluated |-> FALSE, oob |-> c.oob]
         : g \in sized}

\* The values a read of (da)->items[idx] may yield.  A read outside the block
\* items points to is undefined: any value may come back.
da__load(h, p, idx) ==
  IF p # NULL /\ p \in DOMAIN h /\ idx < Len(h[p])
    THEN {[val |-> h[p][idx + 1], oob |-> FALSE]}
    ELSE {[val |-> v, oob |-> TRUE] : v \in Values \cup {Indeterminate}}

\* Variant of da_pop: the last element is read but count is not decremented,
\* items[count - 1].
da_pop_peek(h, d) ==
  LET n == da_size(d.count - 1)
  IN  {[items |-> d.items, count |-> d.count, capacity |-> d.capacity,
        heap |-> h, ret |-> <<r.val>>, calls |-> <<>>, evaluated |-> FALSE,
        oob |-> r.oob]
         : r \in da__load(h, d.items, n)}

\* Variant of da_pop: the slot of the popped element is cleared.
da_pop_clear(h, d) ==
  LET n == da_size(d.count - 1)
  IN  {[items |-> d.items, count |-> n, capacity |-> d.capacity,
        heap |-> da__store(h, d.items, n, 0).heap,
        ret |-> <<r.val>>, calls |-> <<>>, evaluated |-> FALSE,
        oob |-> r.oob]
         : r \in da__load(h, d.items, n)}

\* (da)->items[--(da)->count]
da_pop(h, d) ==
  LET n == da_size(d.count - 1)
  IN  {[items |-> d.items, count |-> n, capacity |-> d.capacity, heap |-> h,
        ret |-> <<r.val>>, calls |-> <<>>, evaluated |-> FALSE,
        oob |-> r.oob]
         : r \in da__load(h, d.items, n)}

\* Variant of da_free: the size handed to DA_FREE is that of the live
\* elements, count * sizeof(T).
da_free_count(h, d) ==
  {[items |-> d.items, count |-> d.count, capacity |-> d.capacity,
    heap |-> [a \in DOMAIN h \ {d.items} |-> h[a]], ret |-> <<>>,
    calls |-> <<[fn |-> "free", ptr |-> d.items,
                 oldsz |-> da_size(d.count * sizeof_T), newsz |-> 0]>>,
    evaluated |-> FALSE, oob |-> FALSE]}

\* DA_FREE(ctx, items, capacity * sizeof(T)): free(items).  The header is left
\* as it was.
da_free(h, d) ==
  {[items |-> d.items, count |-> d.count, capacity |-> d.capacity,
    heap |-> [a \in DOMAIN h \ {d.items} |-> h[a]], ret |-> <<>>,
    calls |-> <<[fn |-> "free", ptr |-> d.items,
                 oldsz |-> da_size(d.capacity * sizeof_T), newsz |-> 0]>>,
    evaluated |-> FALSE, oob |-> FALSE]}

\* Variant of da_pop_or: expr is evaluated before the test, as an argument of
\* a function would be.
da_pop_or_eager(h, d, expr) ==
  IF d.count > 0
    THEN {[o EXCEPT !.evaluated = TRUE] : o \in da_pop(h, d)}
    ELSE {[items |-> d.items, count |-> d.count, capacity |-> d.capacity,
           heap |-> h, ret |-> <<expr>>, calls |-> <<>>, evaluated |-> TRUE,
           oob |-> FALSE]}

\* Variant of da_pop_or: the test is count > 1, so the default is yielded
\* while one element is left.
da_pop_or_gt1(h, d, expr) ==
  IF d.count > 1
    THEN da_pop(h, d)
    ELSE {[items |-> d.items, count |-> d.count, capacity |-> d.capacity,
           heap |-> h, ret |-> <<expr>>, calls |-> <<>>, evaluated |-> TRUE,
           oob |-> FALSE]}

\* (da)->count > 0 ? da_pop(da) : (expr)
da_pop_or(h, d, expr) ==
  IF d.count > 0
    THEN da_pop(h, d)
    ELSE {[items |-> d.items, count |-> d.count, capacity |-> d.capacity,
           heap |-> h, ret |-> <<expr>>, calls |-> <<>>, evaluated |-> TRUE,
           oob |-> FALSE]}

\* Variant of da_memdup: the whole buffer is copied, capacity elements
\* instead of count.
da_memdup_cap(h, d) ==
  LET sz == da_size(sizeof_T * d.capacity)
  IN  {[items |-> d.items, count |-> d.count, capacity |-> d.capacity,
        heap |-> IF r.ptr = NULL THEN r.heap
                 ELSE [r.heap EXCEPT ![r.ptr] =
                         [k \in 1..Len(r.heap[r.ptr]) |->
                            IF d.items # NULL /\ k <= d.capacity
                              THEN h[d.items][k] ELSE @[k]]],
        ret |-> <<r.ptr>>,
        calls |-> <<[fn |-> "malloc", ptr |-> NULL, oldsz |-> 0, newsz |-> sz]>>,
        evaluated |-> FALSE,
        oob |-> (r.ptr = NULL \/ d.items = NULL)]
         : r \in DA_MALLOC(h, sz)}

\* DA_MEMCPY(DA_MALLOC(ctx, sizeof(T) * count), items, sizeof(T) * count).
\* memcpy is handed a null pointer when malloc(0) yields one or items is NULL.
da_memdup(h, d) ==
  LET sz == da_size(sizeof_T * d.count)
  IN  {[items |-> d.items, count |-> d.count, capacity |-> d.capacity,
        heap |-> IF r.ptr = NULL THEN r.heap
                 ELSE [r.heap EXCEPT ![r.ptr] =
                         [k \in 1..Len(r.heap[r.ptr]) |->
                            IF d.items # NULL /\ k <= d.count
                              THEN h[d.items][k] ELSE @[k]]],
        ret |-> <<r.ptr>>,
        calls |-> <<[fn |-> "malloc", ptr |-> NULL, oldsz |-> 0, newsz |-> sz]>>,
        evaluated |-> FALSE,
        oob |-> (r.ptr = NULL \/ d.items = NULL)]
         : r \in DA_MALLOC(h, sz)}

\* sb_append_null(ctx, sb) -> da_append(ctx, sb, '\0')
sb_append_null(h, d) == da_append(h, d, 0)

\* Variant of DA_STRLEN: the terminator is counted, as sizeof does for a
\* string literal.
RECURSIVE DA_STRLEN_sizeof(_)
DA_STRLEN_sizeof(str) ==
  IF Head(str) = 0 THEN 1 ELSE 1 + DA_STRLEN_sizeof(Tail(str))

\* DA_STRLEN(str): the number of chars before the first '\0' of str.
RECURSIVE DA_STRLEN(_)
DA_STRLEN(str) == IF Head(str) = 0 THEN 0 ELSE 1 + DA_STRLEN(Tail(str))

\* sb_append_cstr(ctx, sb, str) -> da_append_many(ctx, sb, str, strlen(str))
sb_append_cstr(h, d, str) == da_append_many(h, d, str, DA_STRLEN(str))

\* Variant of sb_strdup: the memset of the terminator is missing, so the last
\* byte of the copy keeps what malloc left there.
sb_strdup_unterminated(h, d) ==
  LET sz == da_size(d.count + 1)
  IN  {[items |-> d.items, count |-> d.count, capacity |-> d.capacity,
        heap |-> IF r.ptr = NULL THEN r.heap
                 ELSE [r.heap EXCEPT ![r.ptr] =
                         [k \in 1..Len(r.heap[r.ptr]) |->
                            IF d.items # NULL /\ k <= d.count THEN h[d.items][k]
                            ELSE @[k]]],
        ret |-> <<r.ptr>>,
        calls |-> <<[fn |-> "malloc", ptr |-> NULL, oldsz |-> 0, newsz |-> sz]>>,
        evaluated |-> FALSE,
        oob |-> (r.ptr = NULL \/ d.items = NULL)]
         : r \in DA_MALLOC(h, sz)}

\* memset(memcpy(malloc(count + 1), items, count) + count, '\0', 1) - count
sb_strdup(h, d) ==
  LET sz == da_size(d.count + 1)
  IN  {[items |-> d.items, count |-> d.count, capacity |-> d.capacity,
        heap |-> IF r.ptr = NULL THEN r.heap
                 ELSE [r.heap EXCEPT ![r.ptr] =
                         [k \in 1..Len(r.heap[r.ptr]) |->
                            IF d.items # NULL /\ k <= d.count THEN h[d.items][k]
                            ELSE IF k = d.count + 1 THEN 0 ELSE @[k]]],
        ret |-> <<r.ptr>>,
        calls |-> <<[fn |-> "malloc", ptr |-> NULL, oldsz |-> 0, newsz |-> sz]>>,
        evaluated |-> FALSE,
        oob |-> (r.ptr = NULL \/ d.items = NULL)]
         : r \in DA_MALLOC(h, sz)}

(***************************************************************************)
(* The caller of Spec.                                                     *)
(***************************************************************************)
da == da_from_parts(items, count, capacity)

\* The effect of one call on the state: the header and heap it leaves, and the
\* record of the call.
Call(op, arg, o) ==
  /\ items' = o.items
  /\ count' = o.count
  /\ capacity' = o.capacity
  /\ heap' = o.heap
  /\ last' = [op |-> op, arg |-> arg, ret |-> o.ret, calls |-> o.calls,
              evaluated |-> o.evaluated, oob |-> o.oob,
              items0 |-> items, count0 |-> count, capacity0 |-> capacity,
              live0 |-> Live(heap, items, count)]
  /\ prev' = IF op \in {"da_pop", "da_pop_or"} THEN last.op ELSE "-"
  /\ UNCHANGED <<made, may_fail>>

NoCall(calls) ==
  [op |-> "init", arg |-> <<>>, ret |-> <<>>, calls |-> calls,
   evaluated |-> FALSE, oob |-> FALSE,
   items0 |-> NULL, count0 |-> 0, capacity0 |-> 0, live0 |-> <<>>]

\* DynamicArray(T) da = DA_INIT;
Construct_DA_INIT ==
  /\ items = DA_INIT.items /\ count = DA_INIT.count
  /\ capacity = DA_INIT.capacity
  /\ heap = <<>>
  /\ made = [ctor |-> "DA_INIT", capacity |-> 0]
  /\ last = NoCall(<<>>)
  /\ prev = "-"
  /\ dup = NULL

\* DynamicArray(T) da = da_with_capacity(T, ctx, cap);
Construct_with_capacity(cap) ==
  \E r \in da_with_capacity(<<>>, cap) :
    /\ items = r.da.items /\ count = r.da.count /\ capacity = r.da.capacity
    /\ heap = r.heap
    /\ made = [ctor |-> "da_with_capacity", capacity |-> cap]
    /\ last = NoCall(r.calls)
    /\ prev = "-"
    /\ dup = NULL

SeqsUpTo(S, n) == UNION {[1..k -> S] : k \in 0..n}

Init ==
  /\ may_fail = FALSE
  /\ Construct_DA_INIT \/ \E cap \in 0..MaxInitCap : Construct_with_capacity(cap)
  /\ pc = "ops"
  /\ argv = <<>>
  /\ i = 0
  /\ out = <<>>

CallAppend ==
  /\ pc = "ops" /\ dup = NULL
  /\ count + 1 <= MaxCount
  /\ \E x \in Values : \E o \in da_append(heap, da, x) : Call("da_append", <<x>>, o)
  /\ UNCHANGED <<dup, pc, argv, i, out>>

CallAppendMany ==
  /\ pc = "ops" /\ dup = NULL
  /\ \E src \in SeqsUpTo(Values, MaxMany) :
       /\ count + Len(src) <= MaxCount
       /\ \E o \in da_append_many(heap, da, src, Len(src)) :
            Call("da_append_many", src, o)
  /\ UNCHANGED <<dup, pc, argv, i, out>>

\* da_pop is undefined on an empty array: the caller establishes count > 0.
CallPop ==
  /\ pc = "ops" /\ dup = NULL
  /\ count > 0
  /\ \E o \in da_pop(heap, da) : Call("da_pop", <<>>, o)
  /\ UNCHANGED <<dup, pc, argv, i, out>>

CallPopOr ==
  /\ pc = "ops" /\ dup = NULL
  /\ \E e \in Defaults : \E o \in da_pop_or(heap, da, e) : Call("da_pop_or", <<e>>, o)
  /\ UNCHANGED <<dup, pc, argv, i, out>>

CallMemdup ==
  /\ pc = "ops" /\ dup = NULL
  /\ \E o \in da_memdup(heap, da) :
       Call("da_memdup", <<>>, o) /\ dup' = o.ret[1]
  /\ UNCHANGED <<pc, argv, i, out>>

CallSbAppendNull ==
  /\ pc = "ops" /\ dup = NULL
  /\ count + 1 <= MaxCount
  /\ \E o \in sb_append_null(heap, da) : Call("sb_append_null", <<>>, o)
  /\ UNCHANGED <<dup, pc, argv, i, out>>

\* The null-terminated strings a caller passes: no '\0' before the terminator.
CStrings == {Append(str, 0) : str \in SeqsUpTo(Values \ {0}, MaxMany)}

CallSbAppendCstr ==
  /\ pc = "ops" /\ dup = NULL
  /\ \E str \in CStrings :
       /\ count + Len(str) - 1 <= MaxCount
       /\ \E o \in sb_append_cstr(heap, da, str) :
            Call("sb_append_cstr", str, o)
  /\ UNCHANGED <<dup, pc, argv, i, out>>

CallSbStrdup ==
  /\ pc = "ops" /\ dup = NULL
  /\ \E o \in sb_strdup(heap, da) :
       Call("sb_strdup", <<>>, o) /\ dup' = o.ret[1]
  /\ UNCHANGED <<pc, argv, i, out>>

\* The caller releases the copy it was given before it calls again.
FreeDup ==
  /\ pc = "ops" /\ dup # NULL
  /\ heap' = [a \in DOMAIN heap \ {dup} |-> heap[a]]
  /\ dup' = NULL
  /\ UNCHANGED <<items, count, capacity, made, last, prev, may_fail, pc, argv, i,
               out>>

Next ==
  \/ CallAppend \/ CallAppendMany \/ CallPop \/ CallPopOr
  \/ CallMemdup \/ CallSbAppendNull \/ CallSbAppendCstr \/ CallSbStrdup
  \/ FreeDup

Spec == Init /\ [][Next]_vars

(***************************************************************************)
(* The example program "running total": main() pushes atoi(argv[1..]),     *)
(* prints the running total, pops with a default ten times and deletes the *)
(* array.  argv holds the values atoi yields.  The array is made by        *)
(* DA_INIT, as in that example, or by da_make(T, cap), as in "sort lines". *)
(***************************************************************************)
NPOPS == 10
POP_DEFAULT == -1

Scenarios ==
  { <<1, 2, 3, 4, 5>>, <<10, 20, 30>>, <<3, 1, 4, 1, 5>>,
    [k \in 1..(DA_INIT_CAPACITY + 1) |-> k - 1] }

Inputs == SeqsUpTo(Values, MaxArgs) \cup Scenarios

InitRun ==
  /\ may_fail = FALSE
  /\ Construct_DA_INIT \/ \E cap \in 0..MaxInitCap : Construct_with_capacity(cap)
  /\ pc = "push"
  /\ argv \in Inputs
  /\ i = 0
  /\ out = <<>>

\* for (int i = 1; i < argc; i++) da_push(&da, atoi(argv[i]));
RunPush ==
  /\ pc = "push"
  /\ i < Len(argv)
  /\ \E o \in da_append(heap, da, argv[i + 1]) :
       Call("da_append", <<argv[i + 1]>>, o)
  /\ i' = i + 1
  /\ UNCHANGED <<dup, pc, argv, out>>

\* The push loop ends; the running total loop reads items[0..count) only.
RunTotal ==
  /\ pc = "push"
  /\ i = Len(argv)
  /\ pc' = "pop"
  /\ i' = 0
  /\ UNCHANGED <<items, count, capacity, heap, made, last, prev, dup, may_fail,
               argv, out>>

\* for (size_t i = 0; i < 10; i++) printf(..., da_pop_or(&da, -1));
RunPopOr ==
  /\ pc = "pop"
  /\ i < NPOPS
  /\ \E o \in da_pop_or(heap, da, POP_DEFAULT) :
       /\ Call("da_pop_or", <<POP_DEFAULT>>, o)
       /\ out' = Append(out, o.ret[1])
  /\ i' = i + 1
  /\ UNCHANGED <<dup, pc, argv>>

\* da_delete(&da);
RunDelete ==
  /\ pc = "pop"
  /\ i = NPOPS
  /\ \E o \in da_free(heap, da) : Call("da_free", <<>>, o)
  /\ pc' = "done"
  /\ UNCHANGED <<dup, argv, i, out>>

NextRun == RunPush \/ RunTotal \/ RunPopOr \/ RunDelete

SpecRun == InitRun /\ [][NextRun]_vars

(***************************************************************************)
(* A caller that builds with two appending calls, copies and frees:        *)
(*   da = DA_INIT or da_with_capacity(T, ctx, cap);                        *)
(*   <append>; <append>; p = da_memdup / sb_strdup; free(p); da_free.      *)
(* The source buffers include one of 50 elements and the strings "hello"   *)
(* and " world".                                                           *)
(***************************************************************************)
BulkSources == SeqsUpTo(Values, MaxMany) \cup {[k \in 1..50 |-> k]}

\* "hello" and " world" as chars, each with its terminator.
Hello == <<104, 101, 108, 108, 111, 0>>
World == <<32, 119, 111, 114, 108, 100, 0>>
BulkStrings == CStrings \cup {Hello, World}

InitBulk ==
  /\ may_fail = FALSE
  /\ Construct_DA_INIT \/ \E cap \in 0..MaxInitCap : Construct_with_capacity(cap)
  /\ pc = "first"
  /\ argv = <<>>
  /\ i = 0
  /\ out = <<>>

BulkStep == pc \in {"first", "second"} /\ pc' = IF pc = "first" THEN "second" ELSE "copy"

BulkAppend ==
  /\ BulkStep
  /\ \E x \in Values : \E o \in da_append(heap, da, x) : Call("da_append", <<x>>, o)
  /\ UNCHANGED <<dup, argv, i, out>>

BulkAppendNull ==
  /\ BulkStep
  /\ \E o \in sb_append_null(heap, da) : Call("sb_append_null", <<>>, o)
  /\ UNCHANGED <<dup, argv, i, out>>

BulkAppendMany ==
  /\ BulkStep
  /\ \E src \in BulkSources :
       \E o \in da_append_many(heap, da, src, Len(src)) :
          Call("da_append_many", src, o)
  /\ UNCHANGED <<dup, argv, i, out>>

BulkAppendCstr ==
  /\ BulkStep
  /\ \E str \in BulkStrings :
       \E o \in sb_append_cstr(heap, da, str) : Call("sb_append_cstr", str, o)
  /\ UNCHANGED <<dup, argv, i, out>>

BulkMemdup ==
  /\ pc = "copy" /\ pc' = "copied"
  /\ \E o \in da_memdup(heap, da) :
       Call("da_memdup", <<>>, o) /\ dup' = o.ret[1]
  /\ UNCHANGED <<argv, i, out>>

BulkStrdup ==
  /\ pc = "copy" /\ pc' = "copied"
  /\ \E o \in sb_strdup(heap, da) :
       Call("sb_strdup", <<>>, o) /\ dup' = o.ret[1]
  /\ UNCHANGED <<argv, i, out>>

\* free(p): the caller releases the copy.
BulkFreeDup ==
  /\ pc = "copied" /\ pc' = "delete"
  /\ heap' = [a \in DOMAIN heap \ {dup} |-> heap[a]]
  /\ dup' = NULL
  /\ UNCHANGED <<items, count, capacity, made, last, prev, may_fail, argv, i, out>>

BulkDelete ==
  /\ pc = "delete" /\ pc' = "done"
  /\ \E o \in da_free(heap, da) : Call("da_free", <<>>, o)
  /\ UNCHANGED <<dup, argv, i, out>>

NextBulk ==
  \/ BulkAppend \/ BulkAppendNull \/ BulkAppendMany \/ BulkAppendCstr
  \/ BulkMemdup \/ BulkStrdup \/ BulkFreeDup \/ BulkDelete

SpecBulk == InitBulk /\ [][NextBulk]_vars

(***************************************************************************)
(* A caller whose allocator can run out of memory: malloc and realloc may  *)
(* return a null pointer at any call.  An element access outside the block *)
(* items points to is undefined: the process may be killed by a signal     *)
(* (pc = "trapped") or run on.                                             *)
(***************************************************************************)
InitFail ==
  /\ may_fail = TRUE
  /\ Construct_DA_INIT \/ \E cap \in 0..MaxInitCap : Construct_with_capacity(cap)
  /\ pc = "ops"
  /\ argv = <<>>
  /\ i = 0
  /\ out = <<>>

FailCall(op, arg, o) ==
  /\ Call(op, arg, o)
  /\ pc' \in IF o.oob THEN {"ops", "trapped"} ELSE {"ops"}
  /\ UNCHANGED <<dup, argv, i, out>>

FailAppend ==
  /\ pc = "ops"
  /\ count + 1 <= MaxCount
  /\ \E x \in Values : \E o \in da_append(heap, da, x) :
       FailCall("da_append", <<x>>, o)

FailAppendMany ==
  /\ pc = "ops"
  /\ \E src \in SeqsUpTo(Values, MaxMany) :
       /\ count + Len(src) <= MaxCount
       /\ \E o \in da_append_many(heap, da, src, Len(src)) :
            FailCall("da_append_many", src, o)

FailPopOr ==
  /\ pc = "ops"
  /\ \E e \in Defaults : \E o \in da_pop_or(heap, da, e) :
       FailCall("da_pop_or", <<e>>, o)

NextFail == FailAppend \/ FailAppendMany \/ FailPopOr

SpecFail == InitFail /\ [][NextFail]_vars

(***************************************************************************)
(* Arrays near the limits of da_size: a caller hands da_from_parts a full  *)
(* or nearly full buffer whose capacity is about half of, or all of, the   *)
(* range of da_size, and goes on with da_append_many and da_pop_or while   *)
(* count stays within MaxMany of that capacity.                            *)
(***************************************************************************)
WideCapacities == {DA_SIZE_MOD \div 2 - 1, DA_SIZE_MOD \div 2, DA_SIZE_MOD - 1}

InitWide ==
  /\ may_fail = FALSE
  /\ \E cap \in WideCapacities : \E n \in {cap - 1, cap} :
       /\ items = 1 /\ count = n /\ capacity = cap
       /\ heap = <<[k \in 1..cap |-> 1]>>
       /\ made = [ctor |-> "da_from_parts", capacity |-> cap]
  /\ last = NoCall(<<>>)
  /\ prev = "-"
  /\ dup = NULL
  /\ pc = "ops"
  /\ argv = <<>>
  /\ i = 0
  /\ out = <<>>

\* The caller goes on while count is within MaxMany of the given capacity.
WideWindow ==
  /\ pc = "ops"
  /\ made.capacity - MaxMany <= count /\ count <= made.capacity + MaxMany

WideAppendMany ==
  /\ WideWindow
  /\ \E src \in SeqsUpTo(Values, MaxMany) :
       \E o \in da_append_many(heap, da, src, Len(src)) :
          Call("da_append_many", src, o)
  /\ UNCHANGED <<dup, pc, argv, i, out>>

WidePopOr ==
  /\ WideWindow
  /\ \E e \in Defaults : \E o \in da_pop_or(heap, da, e) : Call("da_pop_or", <<e>>, o)
  /\ UNCHANGED <<dup, pc, argv, i, out>>

NextWide == WideAppendMany \/ WidePopOr

SpecWide == InitWide /\ [][NextWide]_vars

(***************************************************************************)
(* Properties.                                                             *)
(***************************************************************************)

\* C1: starting from the zero value DA_INIT, after k consecutive da_append
\* calls with the values v_0..v_(k-1) (here: the first i pushes of argv),
\* count = k, capacity >= k and items[j] = v_j for every j < k.
C1_AppendsFromZero ==
  (made.ctor = "DA_INIT" /\ pc = "push") =>
     /\ count = i
     /\ capacity >= i
     /\ i > 0 => items # NULL /\ items \in DOMAIN heap
     /\ \A j \in 1..i : heap[items][j] = argv[j]

\* The 17 values 0..16 were appended to the zero value: all are in place after
\* the reallocations to 16 and to 32 elements.
C1_Witness ==
  /\ made.ctor = "DA_INIT" /\ pc = "push"
  /\ i = DA_INIT_CAPACITY + 1 /\ count = i
  /\ capacity = 2 * DA_INIT_CAPACITY
  /\ Live(heap, items, count) = [k \in 1..i |-> k - 1]

\* C2: in every state reached from DA_INIT or da_with_capacity(c) by da_append,
\* da_append_many, da_pop (on a non-empty array), da_pop_or, da_memdup and the
\* sb_* operations, 0 <= count <= capacity.
C2_CountWithinCapacity == 0 <= count /\ count <= capacity

\* An array made with capacity 2 had grown to 4 and been popped down to two
\* elements; sb_append_cstr has filled it again.
C2_Witness ==
  /\ made.ctor = "da_with_capacity" /\ made.capacity = 2
  /\ last.op = "sb_append_cstr" /\ last.count0 = 2 /\ last.capacity0 = 4
  /\ count = capacity /\ capacity = 4

\* C3: da_append calls the reallocator exactly when count = capacity at entry
\* and makes no allocator call otherwise; when it grows, the new capacity is
\* capacity * 2 if capacity > 0 and DA_INIT_CAPACITY (16) if capacity = 0.  So
\* from with_capacity(2) three appends give capacities 2 -> 4, and from the
\* zero value 17 appends give 0 -> 16 -> 32.
C3_GrowthRule ==
  /\ last.op = "da_append" =>
       /\ (last.calls # <<>>) <=> (last.count0 = last.capacity0)
       /\ last.calls = <<>> => capacity = last.capacity0 /\ items = last.items0
       /\ last.calls # <<>> =>
            /\ Len(last.calls) = 1
            /\ last.calls[1].fn = "realloc"
            /\ last.calls[1].ptr = last.items0
            /\ capacity = IF last.capacity0 > 0 THEN last.capacity0 * 2 ELSE 16
            /\ last.calls[1].newsz = sizeof_T * capacity
  /\ (pc = "push" /\ made.ctor = "DA_INIT") =>
       capacity = IF i = 0 THEN 0 ELSE IF i <= 16 THEN 16 ELSE 32
  /\ (pc = "push" /\ made.ctor = "da_with_capacity" /\ made.capacity = 2
        /\ i <= 3) =>
       capacity = IF i <= 2 THEN 2 ELSE 4

\* The 17th append to the zero value found count = capacity = 16 and
\* reallocated to 32 elements.
C3_Witness ==
  /\ pc = "push" /\ made.ctor = "DA_INIT" /\ i = 17
  /\ last.op = "da_append" /\ last.count0 = 16 /\ last.capacity0 = 16
  /\ Len(last.calls) = 1 /\ capacity = 32

\* The values s0, s0*2, s0*4, ... and the smallest of them that is >= need.
Doublings(s0) == {s0 * 2 ^ k : k \in 0..DA_SIZE_BITS}
SmallestFit(s0, need) ==
  CHOOSE v \in Doublings(s0) :
    v >= need /\ \A w \in Doublings(s0) : w >= need => v <= w
Max(a, b) == IF a >= b THEN a ELSE b

\* The number of elements a bulk append was asked to add.
ManyN == IF last.op = "sb_append_cstr" THEN Len(last.arg) - 1 ELSE Len(last.arg)
ManySrc == SubSeq(last.arg, 1, ManyN)
IsMany == last.op \in {"da_append_many", "sb_append_cstr"}

\* What C4 says of the elements: the n elements of src are at
\* [old count, old count + n) behind the old ones, and count grew by n.
ManyPlaced ==
  /\ count = last.count0 + ManyN
  /\ Live(heap, items, count) = last.live0 \o ManySrc

\* C4 as stated: when da_append_many(src, n) is called with
\* count + n > capacity, the new capacity is the smallest value of the sequence
\* max(capacity*2, initial_capacity), doubled repeatedly, that is >= count + n;
\* afterwards src is at [old count, old count + n) and count grew by n.
C4_Original ==
  (IsMany /\ last.count0 + ManyN > last.capacity0) =>
     /\ capacity = SmallestFit(Max(last.capacity0 * 2, DA_INIT_CAPACITY),
                               last.count0 + ManyN)
     /\ ManyPlaced

\* C4 amended: the sequence starts at capacity*2 when capacity > 0 and at
\* the initial capacity only when capacity = 0.
C4_FitByDoubling ==
  (IsMany /\ last.count0 + ManyN > last.capacity0) =>
     /\ capacity = SmallestFit(IF last.capacity0 > 0 THEN last.capacity0 * 2
                                                     ELSE DA_INIT_CAPACITY,
                               last.count0 + ManyN)
     /\ ManyPlaced

\* A bulk append on a full array of capacity 1 had to double twice.
C4_Witness ==
  /\ last.op = "da_append_many" /\ ManyN = 2
  /\ last.capacity0 = 1 /\ last.count0 = 1
  /\ capacity = 4 /\ count = 3

\* The results of da_append(src[0]); da_append(src[1]); ... on (h, d).
RECURSIVE AppendEach(_, _, _)
AppendEach(h, d, src) ==
  IF src = <<>>
    THEN {[items |-> d.items, count |-> d.count, capacity |-> d.capacity,
           heap |-> h]}
    ELSE UNION {AppendEach(o.heap, da_from_parts(o.items, o.count, o.capacity),
                           Tail(src))
                  : o \in da_append(h, d, Head(src))}

\* C5: for every array state with count <= capacity, every src and n,
\* da_append_many(src, n) ends in the same count, the same capacity and the
\* same contents of [0, count) as n successive da_append(src[i]) calls applied
\* to the same starting state.
C5_ManyEqualsEach ==
  [][(last'.op = "da_append_many" /\ last' # last) =>
       LET each == AppendEach(heap, da, last'.arg)
       IN  /\ each # {}
           /\ \A r \in each :
                /\ count' = r.count
                /\ capacity' = r.capacity
                /\ Live(heap', items', count') = Live(r.heap, r.items, r.count)
     ]_vars

\* A bulk append of two elements whose first fitted and whose second did not.
C5_Witness ==
  /\ last.op = "da_append_many" /\ ManyN = 2
  /\ last.capacity0 = 2 /\ last.count0 = 1
  /\ last.calls # <<>> /\ capacity = 4 /\ count = 3

\* C6: across any sequence of da_append, da_append_many, da_pop and da_pop_or
\* operations capacity never decreases: every step leaves
\* capacity' >= capacity.
C6_CapacityMonotone == [][capacity' >= capacity]_vars

\* The array has grown twice and was popped afterwards.
C6_Witness ==
  /\ made.ctor = "da_with_capacity" /\ made.capacity = 1
  /\ capacity = 4
  /\ last.op = "da_pop" /\ prev = "da_pop_or"

\* C7 as stated: after any growth by da_append or da_append_many, capacity is
\* a power-of-two multiple of DA_INIT_CAPACITY, or the initial capacity
\* supplied at construction, or zero.
C7_Original ==
  capacity \in Doublings(DA_INIT_CAPACITY) \cup {made.capacity, 0}

\* C7 amended: capacity is a power-of-two multiple of DA_INIT_CAPACITY or of
\* the capacity supplied at construction, or zero.
C7_GrowthSchedule ==
  capacity \in Doublings(DA_INIT_CAPACITY) \cup Doublings(made.capacity) \cup {0}

\* An array constructed with capacity 3 has grown to 6.
C7_Witness ==
  /\ made.ctor = "da_with_capacity" /\ made.capacity = 3
  /\ last.op = "da_append" /\ last.calls # <<>>
  /\ last.capacity0 = 3 /\ capacity = 6

\* C8: pop inversion.  For every array state with count <= capacity and every
\* x, da_append(x) immediately followed by da_pop() yields x, restores count
\* to its value before the append and leaves the elements at [0, count)
\* unchanged; only capacity and the buffer address may differ.
C8_PopInvertsAppend ==
  [][(last.op = "da_append" /\ last'.op = "da_pop") =>
       /\ last'.ret = last.arg
       /\ count' = last.count0
       /\ Live(heap', items', count') = last.live0
     ]_vars

\* A full array of capacity 2 was appended to, which moved it to a block of 4
\* elements, and popped at once.
C8_Witness ==
  /\ last.op = "da_pop" /\ prev = "da_append"
  /\ made.capacity = 2 /\ last.capacity0 = 4 /\ last.count0 = 3
  /\ count = 2 /\ last.items0 # 1

\* C9: da_pop_or(da, expr): when count > 0 it behaves as da_pop (count
\* decreases by one, the former last element is returned) and expr is not
\* evaluated; when count = 0 it returns the value of expr and leaves count at 0
\* and the array otherwise unchanged.
C9_PopOr ==
  [][(last'.op = "da_pop_or" /\ last' # last) =>
       /\ items' = items /\ capacity' = capacity /\ heap' = heap
       /\ last'.calls = <<>>
       /\ IF count > 0
            THEN /\ count' = count - 1
                 /\ last'.ret = <<heap[items][count]>>
                 /\ ~last'.evaluated
            ELSE /\ count' = 0
                 /\ last'.ret = last'.arg
                 /\ last'.evaluated
     ]_vars

\* da_pop_or took the only element of the array and, called again, yielded
\* the default.
C9_Witness ==
  /\ last.op = "da_pop_or" /\ prev = "da_pop_or"
  /\ last.evaluated /\ last.ret = last.arg /\ last.count0 = 0 /\ count = 0
  /\ capacity > 0 /\ heap[items][1] \in Values

\* C10: LIFO order with default tail.  After appending v_1..v_k to an empty
\* array, m successive da_pop_or(d) calls return v_k, ..., v_1 for the first
\* min(m, k) calls and d for every later call.
C10_LifoThenDefault ==
  pc \in {"pop", "done"} =>
     /\ pc = "pop" => Len(out) = i
     /\ out = [m \in 1..Len(out) |->
                 IF m <= Len(argv) THEN argv[Len(argv) - m + 1]
                                   ELSE POP_DEFAULT]

\* Push 3, 1, 4, 1, 5, then pop_or(-1) ten times.
C10_Witness ==
  /\ argv = <<3, 1, 4, 1, 5>>
  /\ out = <<5, 1, 4, 1, 3, -1, -1, -1, -1, -1>>

\* C11: da_append_many calls the reallocator at most once per call and not at
\* all when count + n <= capacity at entry; with n = 0 it makes no allocator
\* call, copies nothing and leaves items, count, capacity and the heap as they
\* were; from the zero value a da_append_many of 50 elements makes exactly one
\* reallocation, to capacity 64, and ends with count = 50.
C11_OneReallocAtMost ==
  [][(last'.op = "da_append_many" /\ (last' # last \/ pc' # pc)) =>
       LET n == Len(last'.arg)
       IN  /\ Len(last'.calls) <= 1
           /\ \A k \in 1..Len(last'.calls) : last'.calls[k].fn = "realloc"
           /\ count + n <= capacity =>
                 last'.calls = <<>> /\ items' = items /\ capacity' = capacity
           /\ n = 0 =>
                 /\ last'.calls = <<>>
                 /\ items' = items /\ count' = count /\ capacity' = capacity
                 /\ heap' = heap
           /\ (items = NULL /\ count = 0 /\ capacity = 0 /\ n = 50) =>
                 /\ Len(last'.calls) = 1
                 /\ last'.calls[1].newsz = sizeof_T * 64
                 /\ capacity' = 64 /\ count' = 50
                 /\ Live(heap', items', count') = last'.arg
     ]_vars

\* The zero value was handed 50 elements at once: one reallocation to 64.
C11_Witness ==
  /\ made.ctor = "DA_INIT" /\ pc = "second"
  /\ last.op = "da_append_many" /\ Len(last.arg) = 50
  /\ last.items0 = NULL /\ last.capacity0 = 0
  /\ Len(last.calls) = 1 /\ capacity = 64 /\ count = 50

\* C12: da_memdup requests exactly count * sizeof(T) bytes from the allocator;
\* the elements [0, count) of the block it returns equal the live elements of
\* the array; the array itself (items, count, capacity and the contents of
\* its buffer) is unchanged.
C12_MemdupCopies ==
  [][(last'.op = "da_memdup" /\ dup = NULL /\ (last' # last \/ dup' # NULL)) =>
       /\ last'.calls = <<[fn |-> "malloc", ptr |-> NULL, oldsz |-> 0,
                           newsz |-> sizeof_T * count]>>
       /\ last'.ret = <<dup'>>
       /\ dup' = NULL => count = 0
       /\ dup' # NULL =>
            /\ dup' \notin DOMAIN heap
            /\ Len(heap'[dup']) * sizeof_T = sizeof_T * count
            /\ \A k \in 1..count : heap'[dup'][k] = heap[items][k]
       /\ items' = items /\ count' = count /\ capacity' = capacity
       /\ \A a \in DOMAIN heap : heap'[a] = heap[a]
     ]_vars

\* An array of capacity 4 holding three elements was copied: the copy is a
\* second block of three elements.
C12_Witness ==
  /\ last.op = "da_memdup" /\ dup # NULL /\ dup # items
  /\ count = 3 /\ capacity = 4
  /\ heap[dup] = SubSeq(heap[items], 1, 3)
  /\ heap[dup][1] # heap[dup][2]

\* C13: sb_strdup allocates count + 1 bytes and returns the base of a block
\* whose bytes [0, count) equal the builder's contents and whose byte at index
\* count is zero, for every builder state, count = 0 and a builder that
\* already ends in a zero byte included; the builder is unchanged.  After
\* sb_append_cstr("hello") and sb_append_cstr(" world") on an empty builder
\* the block is the 12 bytes "hello world\0".
C13_StrdupTerminated ==
  [][(last'.op = "sb_strdup" /\ dup = NULL /\ (last' # last \/ dup' # NULL)) =>
       /\ last'.calls = <<[fn |-> "malloc", ptr |-> NULL, oldsz |-> 0,
                           newsz |-> count + 1]>>
       /\ last'.ret = <<dup'>>
       /\ dup' # NULL /\ dup' \notin DOMAIN heap
       /\ Len(heap'[dup']) = count + 1
       /\ \A k \in 1..count : heap'[dup'][k] = heap[items][k]
       /\ heap'[dup'][count + 1] = 0
       /\ items' = items /\ count' = count /\ capacity' = capacity
       /\ \A a \in DOMAIN heap : heap'[a] = heap[a]
       /\ (pc = "copy" /\ count = 11 /\ last.op = "sb_append_cstr"
             /\ last.arg = World /\ last.live0 = SubSeq(Hello, 1, 5)) =>
            heap'[dup'] = <<104, 101, 108, 108, 111, 32,
                            119, 111, 114, 108, 100, 0>>
     ]_vars

\* "hello" and " world" were appended to an empty builder and the string was
\* duplicated: 12 bytes, the last of them the terminator.
C13_Witness ==
  /\ pc = "copied" /\ last.op = "sb_strdup" /\ last.count0 = 11
  /\ made.ctor = "DA_INIT"
  /\ dup # NULL /\ Len(heap[dup]) = 12
  /\ heap[dup] = SubSeq(Hello, 1, 5) \o World
  /\ Live(heap, items, count) = SubSeq(heap[dup], 1, 11)

\* The number of zero bytes in a sequence of bytes.
Zeros(bytes) == Cardinality({k \in 1..Len(bytes) : bytes[k] = 0})

\* The bytes a call hands to the builder explicitly: the item of sb_append,
\* the zero byte of sb_append_null, the n bytes of sb_append_many, the chars
\* of the string of sb_append_cstr without its terminator.
Explicit(call) ==
  CASE call.op = "da_append" -> call.arg
    [] call.op = "sb_append_null" -> <<0>>
    [] call.op = "da_append_many" -> call.arg
    [] call.op = "sb_append_cstr" -> SubSeq(call.arg, 1, Len(call.arg) - 1)
    [] OTHER -> <<>>

GrowTarget ==
  IF last.op = "da_append"
    THEN IF last.capacity0 > 0 THEN last.capacity0 * 2 ELSE DA_INIT_CAPACITY
    ELSE SmallestFit(IF last.capacity0 > 0 THEN last.capacity0 * 2
                                           ELSE DA_INIT_CAPACITY,
                     last.count0 + Len(last.arg))

\* The last call was a growing da_append / da_append_many whose reallocation
\* failed.
ReallocFailed ==
  /\ last.op \in {"da_append", "da_append_many"}
  /\ last.calls # <<>> /\ last.calls[1].newsz > 0
  /\ items = NULL

\* C16: with an allocator that signals failure by returning a null pointer, a
\* growing da_append or da_append_many whose reallocation fails leaves
\* items = NULL with capacity already at the target size; the failure shows
\* only in the fields: the call makes no access outside a block of the array
\* and no operation ends the run of the caller.
C16_Original ==
  /\ ReallocFailed => capacity = GrowTarget /\ ~last.oob
  /\ pc # "trapped"

\* C17: resize before store.  In da_append and da_append_many (and the sb_*
\* forms of them) the capacity check and the reallocation come before any
\* element store: with an allocator that always succeeds every store of the
\* call goes to an index below capacity of the block items points to after
\* the call, where the elements are then found; no store goes outside that
\* block, so none to the block released by the reallocation; count is
\* advanced past each element stored.
C17_ResizeBeforeStore ==
  last.op \in {"da_append", "sb_append_null", "da_append_many",
               "sb_append_cstr"} =>
     LET stored == Explicit(last)
     IN  /\ ~last.oob
         /\ count = last.count0 + Len(stored)
         /\ \A k \in 1..Len(stored) :
              /\ last.count0 + k - 1 < capacity
              /\ items \in DOMAIN heap
              /\ Len(heap[items]) = capacity
              /\ heap[items][last.count0 + k] = stored[k]
         /\ (last.calls # <<>> /\ last.items0 # NULL) =>
              /\ items # last.items0
              /\ last.items0 \notin DOMAIN heap

\* A full array of capacity 2 was appended to: the block was replaced by one
\* of 4 elements and the element stored at index 2 of the new block.
C17_Witness ==
  /\ last.op = "da_append" /\ last.calls # <<>>
  /\ last.count0 = 2 /\ last.capacity0 = 2
  /\ items # last.items0 /\ capacity = 4 /\ count = 3
  /\ heap[items][3] = last.arg[1] /\ ~last.oob

\* The blocks the array owns in a state: the one items points to, if any, and
\* that it has exactly capacity * sizeof(T) bytes.
Owned(h, p) == IF p = NULL THEN {} ELSE {p}
OwnsOneBlock(h, p, cap, copy) ==
  /\ DOMAIN h \ {copy} = Owned(h, p)
  /\ p # NULL => Len(h[p]) * sizeof_T = cap * sizeof_T
  /\ p = NULL => cap = 0

\* C18: allocator protocol.  Until it is freed the array owns exactly one
\* live block, of capacity * sizeof(T) bytes, or none (items null, capacity
\* 0); every DA_REALLOC call passes that block and capacity * sizeof(T), the
\* size the block has, as the old size; da_free passes that block with
\* capacity * sizeof(T) and leaves no block of the array behind; da_free on
\* the zero value releases the null pointer with size 0.
C18_AllocatorProtocol ==
  [][/\ pc # "done" => OwnsOneBlock(heap, items, capacity, dup)
     /\ pc' # "done" => OwnsOneBlock(heap', items', capacity', dup')
     /\ (last' # last \/ pc' # pc) =>
          \A k \in 1..Len(last'.calls) :
            LET call == last'.calls[k]
            IN  /\ call.fn = "realloc" =>
                     /\ Len(last'.calls) = 1
                     /\ call.ptr = items
                     /\ call.oldsz = capacity * sizeof_T
                     /\ call.newsz = capacity' * sizeof_T
                /\ call.fn = "free" =>
                     /\ last'.op = "da_free" /\ Len(last'.calls) = 1
                     /\ call.ptr = items
                     /\ call.oldsz = capacity * sizeof_T
                     /\ DOMAIN heap' = {}
                     /\ (items = DA_INIT.items /\ capacity = DA_INIT.capacity) =>
                          call.ptr = NULL /\ call.oldsz = 0
                /\ call.fn = "malloc" =>
                     last'.op \in {"da_memdup", "sb_strdup"}
    ]_vars

\* An array made with capacity 1 grew to 4 elements and was freed: the block
\* of 4 * sizeof(T) bytes went to the allocator and nothing is left.
C18_Witness ==
  /\ pc = "done" /\ last.op = "da_free"
  /\ made.ctor = "da_with_capacity" /\ made.capacity = 1
  /\ last.capacity0 = 4 /\ last.count0 = 3
  /\ last.calls = <<[fn |-> "free", ptr |-> items, oldsz |-> 4 * sizeof_T,
                     newsz |-> 0]>>
  /\ heap = <<>>

\* C19: da_pop and da_pop_or make no allocator call and leave items, capacity
\* and every slot of the buffer, the slot of the popped element included,
\* unchanged; count is the only field they change, so the block items pointed
\* to before the call is the same live block after it.
C19_PopFrame ==
  [][(last'.op \in {"da_pop", "da_pop_or"} /\ last' # last) =>
       /\ last'.calls = <<>>
       /\ items' = items /\ capacity' = capacity
       /\ heap' = heap
       /\ count' \in {count, count - 1}
       /\ count' < count =>
            /\ heap'[items'][count] = heap[items][count]
            /\ last'.ret = <<heap'[items'][count' + 1]>>
     ]_vars

\* The fourth element of a full array of capacity 4 was popped: it is still
\* in its slot, items and capacity are as before.
C19_Witness ==
  /\ last.op = "da_pop" /\ prev = "da_append_many"
  /\ last.count0 = 4 /\ last.capacity0 = 4
  /\ count = 3 /\ capacity = 4 /\ items = last.items0
  /\ heap[items][4] = last.ret[1] /\ last.ret[1] = 1

\* C20: with count and capacity in a fixed-width unsigned da_size, for every
\* state with count <= capacity and every source of n elements
\* da_append_many terminates, its doubling loop exits with a capacity
\* >= count + n, and neither count + n nor the doubled value wraps around so
\* as to skip the growth (then elements are stored past the block) or to
\* loop forever.
C20_Original ==
  count <= capacity =>
    \A src \in SeqsUpTo(Values, MaxMany) :
      LET done == da_append_many(heap, da, src, Len(src))
      IN  /\ done # {}
          /\ \A o \in done :
               /\ o.capacity >= count + Len(src)
               /\ ~o.oob

====
